---- MODULE Spec2Model ----
(***************************************************************************)
(* The copy-on-write DOM-sharing scope of src/servo/dom/cow.rs.            *)
(*                                                                         *)
(* One writer task owns a Scope (the "pool"): a roster of handles          *)
(* (free_list), the reader-active flag (layout_active) and the head of an  *)
(* intrusive dirty list (first_dirty).  Every handle points at a           *)
(* HandleData record with a reader pointer, a writer pointer, a reader-side*)
(* auxiliary pointer and the dirty link.  Payloads live on the C heap      *)
(* (calloc / free); the heap is modelled as a partial function from        *)
(* payload addresses to values, whose domain is the set of live blocks.    *)
(***************************************************************************)
EXTENDS Integers, Sequences, FiniteSets, TLC

(***************************************************************************)
(* Bounds of the model.                                                    *)
(***************************************************************************)
MaxHandles == 2      \* handles the writer creates in one run
MaxVal == 2          \* largest payload value (the counter of the payload)
MaxAux == 2          \* auxiliary boxes the reader can attach
MaxRounds == 2       \* outer iterations of the interspersed test (iter1)
MaxIncr == 3         \* inner iterations of the interspersed test (iter2)

Null == 0
NoVal == Null - 1    \* "no value": what a property sees behind a dangling pointer

Handles == 1..MaxHandles            \* addresses of HandleData records
Addrs == 1..(2 * MaxHandles)        \* addresses of payload blocks
AuxBoxes == 1..MaxAux               \* addresses of @A boxes
Val == 0..MaxVal
Funcs == {"inc", "dbl"}             \* closures handed to write

VARIABLES
    layout_active,   \* ScopeData.layout_active
    free_list,       \* ScopeData.free_list: sequence of handles
    first_dirty,     \* ScopeData.first_dirty: handle or Null
    cells,           \* HandleData records, by address (domain = malloc'd records)
    heap,            \* payload blocks, by address (domain = live blocks)
    status,          \* "running", "aborted" (an assert failed), "destroyed"
    ub,              \* TRUE once a freed or never allocated block was freed or accessed
    allocs,          \* allocator counter: payload blocks the last operation allocated
    frees,           \* allocator counter: payload blocks the last operation freed
    \* history of the run, read by the properties only
    lastOp,          \* the operation that produced this state
    snap,            \* reader view of every handle at the last reader_forked
    ref,             \* reference pool: one plain value per handle
    roundWritten,    \* handles written since the last reader_forked
    roundClones,     \* payloads cloned by write since the last reader_forked
    fj,              \* the last of reader_forked / reader_joined that succeeded
    born,            \* creation value of every handle created since the last reader_forked
    firstWrites,     \* handles written since the last reader_forked, in order of first write
    auxset,          \* the box last handed to set_aux, for every handle that got one
    \* the driver of test::interspersed_execution
    tp               \* record of the test's two tasks (see InitTest)

vars == <<layout_active, free_list, first_dirty, cells, heap, status, ub,
          allocs, frees, lastOp, snap, ref, roundWritten, roundClones, fj,
          born, firstWrites, auxset, tp>>

prog == <<layout_active, free_list, first_dirty, cells, heap, status, ub,
          allocs, frees>>
hist == <<lastOp, snap, ref, roundWritten, roundClones, fj,
          born, firstWrites, auxset>>

(***************************************************************************)
(* Payload closures and the heap.                                          *)
(***************************************************************************)
\* test::mutate adds one; "dbl" is a second closure a caller may pass
Apply(f, v) == IF f = "inc" THEN v + 1 ELSE v * 2

\* the values a dereference of p can yield: the block's content when p is
\* live, anything when p dangles
ReadVals(hp, p) == IF p \in DOMAIN hp THEN {hp[p]} ELSE Val

\* the value of block p for the properties; NoVal when p is not live
View(hp, p) == IF p \in DOMAIN hp THEN hp[p] ELSE NoVal

\* Scope::clone: a fresh zeroed block n receives a copy of the value v
clone(hp, n, v) == (n :> v) @@ hp

\* free: memory is the pair of the heap and the ub flag, plus the number of
\* blocks released so far in the running operation
free(m, t) ==
    [heap  |-> [a \in DOMAIN m.heap \ {t} |-> m.heap[a]],
     ub    |-> m.ub \/ t \notin DOMAIN m.heap,
     nfree |-> m.nfree + 1]

\* free_handle without the comparison of the two pointers
free_handle_both(m, c) == free(free(m, c.read_ptr), c.write_ptr)

\* free_handle: the reader payload, and the writer payload when it differs
free_handle(m, c) ==
    LET m1 == free(m, c.read_ptr)
    IN  IF c.write_ptr # c.read_ptr THEN free(m1, c.write_ptr) ELSE m1

Mem == [heap |-> heap, ub |-> ub, nfree |-> 0]

\* Handle.read: the reader's view;  Scope::read: the writer's view
ReaderView(h) == View(heap, cells[h].read_ptr)
WriterView(h) == View(heap, cells[h].write_ptr)

\* the dirty list: the handles met from hd on along next_dirty, at most
\* fuel of them (a list that comes back on itself has no end)
RECURSIVE DirtyChain(_, _, _)
DirtyChain(cs, hd, fuel) ==
    IF hd = Null \/ fuel = 0 \/ hd \notin DOMAIN cs
       THEN <<>>
       ELSE <<hd>> \o DirtyChain(cs, cs[hd].next_dirty, fuel - 1)

\* the list from first_dirty; longer than the number of records iff cyclic
Chain == DirtyChain(cells, first_dirty, Cardinality(DOMAIN cells) + 1)

(***************************************************************************)
(* The scope after Scope(): no handle, reader not forked, nothing dirty.   *)
(***************************************************************************)
NoOp == [op |-> "Scope", h |-> Null, val |-> NoVal]

InitProg ==
    /\ layout_active = FALSE
    /\ free_list = <<>>
    /\ first_dirty = Null
    /\ cells = <<>>
    /\ heap = <<>>
    /\ status = "running"
    /\ ub = FALSE
    /\ allocs = 0
    /\ frees = 0

InitHist ==
    /\ lastOp = NoOp
    /\ snap = <<>>
    /\ ref = <<>>
    /\ roundWritten = {}
    /\ roundClones = 0
    /\ fj = "none"
    /\ born = <<>>
    /\ firstWrites = <<>>
    /\ auxset = <<>>

Init == InitProg /\ InitHist /\ tp = [mode |-> "free"]

(***************************************************************************)
(* Writer methods of the scope.                                            *)
(***************************************************************************)
\* an assert fails: the task fails, no field is touched
Abort ==
    /\ status' = "aborted"
    /\ allocs' = 0
    /\ frees' = 0
    /\ UNCHANGED <<layout_active, free_list, first_dirty, cells, heap, ub>>

\* malloc / calloc return the address of a block that is not live.  Which
\* one is the allocator's business, and a run without a dangling pointer is
\* the same run under any renaming of the blocks; the allocator modelled
\* here keeps two blocks per record (2d-1 and 2d) and serves a request made
\* for record d from them, lowest first, falling back to the lowest block
\* not live when both are taken.  Freed blocks are reused.  A record is
\* never freed and gets the next address.
Lowest(S) == {a \in S : \A b \in S : a <= b}
Fresh(S, used) == Lowest(S \ used)
Calloc(hp, d) ==
    LET own == {2 * d - 1, 2 * d} \ DOMAIN hp
    IN  IF own # {} THEN Lowest(own) ELSE Fresh(Addrs, DOMAIN hp)

\* Scope::handle keeping the caller's pointer instead of a clone: a second
\* handle made from the same value shares the block of the first
handle_noclone(v) ==
    /\ status = "running"
    /\ \E d \in Fresh(Handles, DOMAIN cells) :
          LET same == {a \in DOMAIN heap : heap[a] = v}
          IN  \E n \in (IF same = {} THEN Calloc(heap, d) ELSE Lowest(same)) :
                 /\ cells' = (d :> [read_ptr |-> n, write_ptr |-> n,
                                    read_aux |-> Null, next_dirty |-> Null]) @@ cells
                 /\ heap' = clone(heap, n, v)
                 /\ free_list' = Append(free_list, d)
    /\ allocs' = 1
    /\ frees' = 0
    /\ UNCHANGED <<layout_active, first_dirty, status, ub>>

\* Scope::handle(v): a new record d whose two pointers alias one fresh clone of v
handle(v) ==
    /\ status = "running"
    /\ \E d \in Fresh(Handles, DOMAIN cells) : \E n \in Calloc(heap, d) :
          /\ cells' = (d :> [read_ptr |-> n, write_ptr |-> n,
                             read_aux |-> Null, next_dirty |-> Null]) @@ cells
          /\ heap' = clone(heap, n, v)
          /\ free_list' = Append(free_list, d)
    /\ allocs' = 1
    /\ frees' = 0
    /\ UNCHANGED <<layout_active, first_dirty, status, ub>>

\* reader_forked without its first assertion
reader_forked_lax ==
    /\ status = "running"
    /\ IF first_dirty # Null
          THEN Abort
          ELSE /\ layout_active' = TRUE
               /\ allocs' = 0
               /\ frees' = 0
               /\ UNCHANGED <<free_list, first_dirty, cells, heap, status, ub>>

\* Scope::reader_forked
reader_forked ==
    /\ status = "running"
    /\ IF layout_active \/ first_dirty # Null
          THEN Abort
          ELSE /\ layout_active' = TRUE
               /\ allocs' = 0
               /\ frees' = 0
               /\ UNCHANGED <<free_list, first_dirty, cells, heap, status, ub>>

\* the loop of reader_joined stopping after the head of the dirty list
JoinWalk_head(cs, m, hd) ==
    IF hd = Null
       THEN [cells |-> cs, mem |-> m]
       ELSE [cells |-> [cs EXCEPT ![hd].read_ptr = cs[hd].write_ptr,
                                  ![hd].next_dirty = Null],
             mem   |-> free(m, cs[hd].read_ptr)]

\* the loop of reader_joined publishing in the wrong direction: the shadow is
\* freed and the writer pointer falls back to the reader payload
RECURSIVE JoinWalk_discard(_, _, _)
JoinWalk_discard(cs, m, hd) ==
    IF hd = Null
       THEN [cells |-> cs, mem |-> m]
       ELSE LET c == cs[hd]
            IN  JoinWalk_discard([cs EXCEPT ![hd].write_ptr = c.read_ptr,
                                            ![hd].next_dirty = Null],
                                 free(m, c.write_ptr),
                                 c.next_dirty)

\* the loop of reader_joined rebuilding the whole record around the published
\* payload, auxiliary pointer included
RECURSIVE JoinWalk_reset(_, _, _)
JoinWalk_reset(cs, m, hd) ==
    IF hd = Null
       THEN [cells |-> cs, mem |-> m]
       ELSE LET c == cs[hd]
            IN  JoinWalk_reset([cs EXCEPT ![hd] = [read_ptr |-> c.write_ptr,
                                                  write_ptr |-> c.write_ptr,
                                                  read_aux |-> Null,
                                                  next_dirty |-> Null]],
                               free(m, c.read_ptr),
                               c.next_dirty)

\* the loop of reader_joined without set_next_dirty(null_handle())
RECURSIVE JoinWalk_nolink(_, _, _)
JoinWalk_nolink(cs, m, hd) ==
    IF hd = Null
       THEN [cells |-> cs, mem |-> m]
       ELSE LET c == cs[hd]
            IN  JoinWalk_nolink([cs EXCEPT ![hd].read_ptr = c.write_ptr],
                                free(m, c.read_ptr),
                                c.next_dirty)

\* the while loop of Scope::reader_joined, from handle on
RECURSIVE JoinWalk(_, _, _)
JoinWalk(cs, m, hd) ==
    IF hd = Null
       THEN [cells |-> cs, mem |-> m]
       ELSE LET c == cs[hd]
            IN  JoinWalk([cs EXCEPT ![hd].read_ptr = c.write_ptr,
                                    ![hd].next_dirty = Null],
                         free(m, c.read_ptr),
                         c.next_dirty)

\* reader_joined forgetting to leave the reader-active state
reader_joined_stays ==
    /\ status = "running"
    /\ IF ~layout_active
          THEN Abort
          ELSE LET r == JoinWalk(cells, Mem, first_dirty)
               IN  /\ cells' = r.cells
                   /\ heap' = r.mem.heap
                   /\ ub' = r.mem.ub
                   /\ frees' = r.mem.nfree
                   /\ allocs' = 0
                   /\ first_dirty' = Null
                   /\ UNCHANGED <<layout_active, free_list, status>>

\* Scope::reader_joined
reader_joined ==
    /\ status = "running"
    /\ IF ~layout_active
          THEN Abort
          ELSE LET r == JoinWalk(cells, Mem, first_dirty)
               IN  /\ cells' = r.cells
                   /\ heap' = r.mem.heap
                   /\ ub' = r.mem.ub
                   /\ frees' = r.mem.nfree
                   /\ allocs' = 0
                   /\ first_dirty' = Null
                   /\ layout_active' = FALSE
                   /\ UNCHANGED <<free_list, status>>

\* the test of write with the pointer comparison inverted: never copies a clean cell
MustCopy_inverted(h) == layout_active /\ cells[h].read_ptr # cells[h].write_ptr
\* the test of write without the layout_active flag
MustCopy_unforked(h) == cells[h].read_ptr = cells[h].write_ptr
\* the test of write without the pointer comparison
MustCopy_always(h) == layout_active

\* the test of Scope::write: copy before the closure runs?
MustCopy(h) == layout_active /\ cells[h].read_ptr = cells[h].write_ptr

\* the closure f of write runs on block p
Mutate(hp, p, f) ==
    IF p \in DOMAIN hp THEN [hp EXCEPT ![p] = Apply(f, hp[p])] ELSE hp

\* Scope::write(h, f)
write(h, f) ==
    /\ status = "running"
    /\ h \in DOMAIN cells
    /\ IF MustCopy(h)
          THEN \E n \in Calloc(heap, h), v \in ReadVals(heap, cells[h].read_ptr) :
                  /\ cells' = [cells EXCEPT ![h].write_ptr = n,
                                            ![h].next_dirty = first_dirty]
                  /\ first_dirty' = h
                  /\ heap' = Mutate(clone(heap, n, v), n, f)
                  /\ ub' = (ub \/ cells[h].read_ptr \notin DOMAIN heap)
                  /\ allocs' = 1
          ELSE /\ heap' = Mutate(heap, cells[h].write_ptr, f)
               /\ ub' = (ub \/ cells[h].write_ptr \notin DOMAIN heap)
               /\ allocs' = 0
               /\ UNCHANGED <<cells, first_dirty>>
    /\ frees' = 0
    /\ UNCHANGED <<layout_active, free_list, status>>

\* the destructor of ScopeResource: free_handle on every handle of free_list
RECURSIVE DropWalk(_, _, _)
DropWalk(m, cs, list) ==
    IF list = <<>>
       THEN m
       ELSE DropWalk(free_handle(m, cs[Head(list)]), cs, Tail(list))

drop ==
    /\ status \in {"running", "aborted"}
    /\ LET m == DropWalk(Mem, cells, free_list)
       IN  /\ heap' = m.heap
           /\ ub' = m.ub
           /\ frees' = m.nfree
    /\ allocs' = 0
    /\ status' = "destroyed"
    /\ UNCHANGED <<layout_active, free_list, first_dirty, cells>>

(***************************************************************************)
(* Reader methods of a handle.                                             *)
(***************************************************************************)
\* Handle.read(f) with f returning the payload value v
read(h, v) ==
    /\ status = "running"
    /\ h \in DOMAIN cells
    /\ v \in ReadVals(heap, cells[h].read_ptr)
    /\ ub' = (ub \/ cells[h].read_ptr \notin DOMAIN heap)
    /\ allocs' = 0
    /\ frees' = 0
    /\ UNCHANGED <<layout_active, free_list, first_dirty, cells, heap, status>>

\* Handle.set_aux(p)
set_aux(h, p) ==
    /\ status = "running"
    /\ h \in DOMAIN cells
    /\ cells' = [cells EXCEPT ![h].read_aux = p]
    /\ allocs' = 0
    /\ frees' = 0
    /\ UNCHANGED <<layout_active, free_list, first_dirty, heap, status, ub>>

\* Handle.has_aux
has_aux(h) == cells[h].read_aux # Null

\* Handle.aux without its assertion: a null read_aux is dereferenced
aux_unchecked(h, v) ==
    /\ status = "running"
    /\ h \in DOMAIN cells
    /\ v \in (IF has_aux(h) THEN {cells[h].read_aux} ELSE AuxBoxes)
    /\ ub' = (ub \/ ~has_aux(h))
    /\ allocs' = 0
    /\ frees' = 0
    /\ UNCHANGED <<layout_active, free_list, first_dirty, cells, heap, status>>

\* Handle.aux(f) with f returning the datum it is handed (the box itself);
\* v is what the call returns, NoVal when the assert fails and f never runs
aux(h, v) ==
    /\ status = "running"
    /\ h \in DOMAIN cells
    /\ IF ~has_aux(h)
          THEN v = NoVal /\ Abort
          ELSE /\ v = cells[h].read_aux
               /\ allocs' = 0
               /\ frees' = 0
               /\ UNCHANGED <<layout_active, free_list, first_dirty, cells, heap,
                              status, ub>>

(***************************************************************************)
(* The operations as steps of a run: the program step and its history.     *)
(***************************************************************************)
Create(v) ==
    /\ handle(v)
    /\ LET d == CHOOSE x \in DOMAIN cells' : x \notin DOMAIN cells
       IN  /\ lastOp' = [op |-> "handle", h |-> d, val |-> NoVal]
           /\ ref' = (d :> v) @@ ref
           /\ born' = IF layout_active THEN (d :> v) @@ born ELSE born
    /\ UNCHANGED <<snap, roundWritten, roundClones, fj, firstWrites, auxset>>

Fork ==
    /\ reader_forked
    /\ lastOp' = [op |-> "reader_forked", h |-> Null, val |-> NoVal]
    /\ IF status' = "running"
          THEN /\ snap' = [h \in DOMAIN cells |-> ReaderView(h)]
               /\ roundWritten' = {}
               /\ roundClones' = 0
               /\ fj' = "fork"
               /\ born' = <<>>
               /\ firstWrites' = <<>>
          ELSE UNCHANGED <<snap, roundWritten, roundClones, fj, born, firstWrites>>
    /\ UNCHANGED <<ref, auxset>>

Join ==
    /\ reader_joined
    /\ lastOp' = [op |-> "reader_joined", h |-> Null, val |-> NoVal]
    /\ IF status' = "running"
          THEN /\ snap' = <<>>
               /\ roundWritten' = {}
               /\ roundClones' = 0
               /\ fj' = "join"
               /\ born' = <<>>
               /\ firstWrites' = <<>>
          ELSE UNCHANGED <<snap, roundWritten, roundClones, fj, born, firstWrites>>
    /\ UNCHANGED <<ref, auxset>>

Write(h, f) ==
    /\ write(h, f)
    /\ lastOp' = [op |-> "write", h |-> Null, val |-> NoVal]
    /\ ref' = [ref EXCEPT ![h] = Apply(f, ref[h])]
    /\ IF layout_active
          THEN /\ roundWritten' = roundWritten \cup {h}
               /\ roundClones' = roundClones + allocs'
               /\ firstWrites' = IF h \in roundWritten THEN firstWrites
                                                       ELSE Append(firstWrites, h)
          ELSE UNCHANGED <<roundWritten, roundClones, firstWrites>>
    /\ UNCHANGED <<snap, fj, born, auxset>>

Read(h) ==
    /\ h \in DOMAIN cells
    /\ \E v \in ReadVals(heap, cells[h].read_ptr) :
        /\ read(h, v)
        /\ lastOp' = [op |-> "read", h |-> h, val |-> v]
        /\ UNCHANGED <<snap, ref, roundWritten, roundClones, fj, born, firstWrites, auxset>>

SetAux(h, p) ==
    /\ set_aux(h, p)
    /\ lastOp' = [op |-> "set_aux", h |-> h, val |-> NoVal]
    /\ auxset' = (h :> p) @@ auxset
    /\ UNCHANGED <<snap, ref, roundWritten, roundClones, fj, born, firstWrites>>

Aux(h) ==
    \E v \in AuxBoxes \cup {NoVal} :
        /\ aux(h, v)
        /\ lastOp' = [op |-> "aux", h |-> h, val |-> v]
        /\ UNCHANGED <<snap, ref, roundWritten, roundClones, fj, born, firstWrites, auxset>>

Drop ==
    /\ drop
    /\ lastOp' = [op |-> "drop", h |-> Null, val |-> NoVal]
    /\ UNCHANGED <<snap, ref, roundWritten, roundClones, fj, born, firstWrites, auxset>>

\* the payload counter is capped: a write that would pass MaxVal is not made
InRange(h, f) == h \in DOMAIN cells /\ Apply(f, WriterView(h)) \in Val

Next ==
    \/ \E v \in 0..1 : Create(v) /\ UNCHANGED tp
    \/ Fork /\ UNCHANGED tp
    \/ Join /\ UNCHANGED tp
    \/ \E h \in Handles, f \in Funcs : InRange(h, f) /\ Write(h, f) /\ UNCHANGED tp
    \/ \E h \in Handles : Read(h) /\ UNCHANGED tp
    \/ Drop /\ UNCHANGED tp

Spec == Init /\ [][Next]_vars

\* the same scope with a reader that attaches and reads auxiliary data; the
\* writer's closure is the doubling one
NextAux ==
    \/ \E v \in 0..1 : Create(v) /\ UNCHANGED tp
    \/ Fork /\ UNCHANGED tp
    \/ Join /\ UNCHANGED tp
    \/ \E h \in Handles : InRange(h, "dbl") /\ Write(h, "dbl") /\ UNCHANGED tp
    \/ \E h \in Handles, p \in AuxBoxes : SetAux(h, p) /\ UNCHANGED tp
    \/ \E h \in Handles : Aux(h) /\ UNCHANGED tp
    \/ Drop /\ UNCHANGED tp

SpecAux == Init /\ [][NextAux]_vars

(***************************************************************************)
(* test::interspersed_execution: the writer task (wpc) and the reader task *)
(* it spawns in every round (rpc), talking over read_port and wait_port.   *)
(* iter1 and iter2 are 3 and 22 in the test; here they are drawn from      *)
(* 0..MaxRounds and 0..MaxIncr.                                            *)
(***************************************************************************)
InitTest ==
    /\ InitProg
    /\ InitHist
    /\ \E n \in 0..MaxRounds, m \in 0..MaxIncr :
          tp = [mode |-> "test", iter1 |-> n, iter2 |-> m,
                wpc |-> "create_h", rpc |-> "idle",
                i |-> 0, j |-> 0, rj |-> 0,
                hrc |-> NoVal, frc |-> NoVal,
                henrietta |-> Null, ferdinand |-> Null,
                read_port |-> <<>>, wait_port |-> 0]

Running == tp.mode = "test" /\ status = "running"

\* a step of the test that touches neither the scope nor the history
Local == UNCHANGED <<prog, hist>>

\* assert c in the writer task, going to pc when it holds
Assert_(c, pc) ==
    IF c THEN Local /\ tp' = [tp EXCEPT !.wpc = pc]
         ELSE Abort /\ UNCHANGED <<hist, tp>>

T_create_h ==
    /\ Running /\ tp.wpc = "create_h"
    /\ Create(0)
    /\ tp' = [tp EXCEPT !.henrietta = lastOp'.h, !.wpc = "create_f"]

T_create_f ==
    /\ Running /\ tp.wpc = "create_f"
    /\ Create(0)
    /\ tp' = [tp EXCEPT !.ferdinand = lastOp'.h, !.wpc = "loop"]

T_loop ==
    /\ Running /\ tp.wpc = "loop"
    /\ Local
    /\ tp' = [tp EXCEPT !.wpc = IF tp.i < tp.iter1 THEN "fork" ELSE "final_h"]

T_fork ==
    /\ Running /\ tp.wpc = "fork"
    /\ Fork
    /\ tp' = [tp EXCEPT !.wpc = "spawn"]

T_spawn ==
    /\ Running /\ tp.wpc = "spawn"
    /\ Local
    /\ tp' = [tp EXCEPT !.wpc = "read_h", !.rpc = "r_loop", !.rj = 0, !.wait_port = 0]

T_read_h ==
    /\ Running /\ tp.wpc = "read_h"
    /\ Read(tp.henrietta)
    /\ tp' = [tp EXCEPT !.hrc = lastOp'.val, !.wpc = "assert_h"]

T_assert_h ==
    /\ Running /\ tp.wpc = "assert_h"
    /\ Assert_(tp.hrc = tp.i * tp.iter2, "read_f")

T_read_f ==
    /\ Running /\ tp.wpc = "read_f"
    /\ Read(tp.ferdinand)
    /\ tp' = [tp EXCEPT !.frc = lastOp'.val, !.wpc = "assert_f"]

T_assert_f ==
    /\ Running /\ tp.wpc = "assert_f"
    /\ Assert_(tp.frc = tp.i * tp.iter2, "inner")

T_inner ==
    /\ Running /\ tp.wpc = "inner"
    /\ Local
    /\ tp' = [tp EXCEPT !.wpc = IF tp.j < tp.iter2 THEN "recv_h" ELSE "join"]

T_recv_h ==
    /\ Running /\ tp.wpc = "recv_h"
    /\ tp.read_port # <<>>
    /\ IF tp.hrc = Head(tp.read_port)
          THEN Local /\ tp' = [tp EXCEPT !.read_port = Tail(@), !.wpc = "write_h"]
          ELSE Abort /\ UNCHANGED hist /\ tp' = [tp EXCEPT !.read_port = Tail(@)]

T_write_h ==
    /\ Running /\ tp.wpc = "write_h"
    /\ Write(tp.henrietta, "inc")
    /\ tp' = [tp EXCEPT !.wpc = "recv_f"]

T_recv_f ==
    /\ Running /\ tp.wpc = "recv_f"
    /\ tp.read_port # <<>>
    /\ IF tp.frc = Head(tp.read_port)
          THEN Local /\ tp' = [tp EXCEPT !.read_port = Tail(@), !.wpc = "write_f"]
          ELSE Abort /\ UNCHANGED hist /\ tp' = [tp EXCEPT !.read_port = Tail(@)]

T_write_f ==
    /\ Running /\ tp.wpc = "write_f"
    /\ Write(tp.ferdinand, "inc")
    /\ tp' = [tp EXCEPT !.wpc = "send_wait"]

T_send_wait ==
    /\ Running /\ tp.wpc = "send_wait"
    /\ Local
    /\ tp' = [tp EXCEPT !.wait_port = @ + 1, !.j = @ + 1, !.wpc = "inner"]

T_join ==
    /\ Running /\ tp.wpc = "join"
    /\ Join
    /\ tp' = [tp EXCEPT !.i = @ + 1, !.j = 0, !.wpc = "loop"]

T_final_h ==
    /\ Running /\ tp.wpc = "final_h"
    /\ Read(tp.henrietta)
    /\ tp' = [tp EXCEPT !.hrc = lastOp'.val, !.wpc = "assert_fh"]

T_assert_fh ==
    /\ Running /\ tp.wpc = "assert_fh"
    /\ Assert_(tp.hrc = tp.iter1 * tp.iter2, "final_f")

T_final_f ==
    /\ Running /\ tp.wpc = "final_f"
    /\ Read(tp.ferdinand)
    /\ tp' = [tp EXCEPT !.frc = lastOp'.val, !.wpc = "assert_ff"]

T_assert_ff ==
    /\ Running /\ tp.wpc = "assert_ff"
    /\ Assert_(tp.frc = tp.iter1 * tp.iter2, "return")

\* the test returns, or its task fails: the scope is dropped
T_drop ==
    /\ tp.mode = "test"
    /\ (status = "running" /\ tp.wpc = "return") \/ status = "aborted"
    /\ Drop
    /\ tp' = [tp EXCEPT !.wpc = "done"]

\* the reader task
R_loop ==
    /\ Running /\ tp.rpc = "r_loop"
    /\ Local
    /\ tp' = [tp EXCEPT !.rpc = IF tp.rj < tp.iter2 THEN "send_h" ELSE "exit"]

R_send_h ==
    /\ Running /\ tp.rpc = "send_h"
    /\ Read(tp.henrietta)
    /\ tp' = [tp EXCEPT !.read_port = Append(@, lastOp'.val), !.rpc = "send_f"]

R_send_f ==
    /\ Running /\ tp.rpc = "send_f"
    /\ Read(tp.ferdinand)
    /\ tp' = [tp EXCEPT !.read_port = Append(@, lastOp'.val), !.rpc = "recv_wait"]

R_recv_wait ==
    /\ Running /\ tp.rpc = "recv_wait"
    /\ tp.wait_port > 0
    /\ Local
    /\ tp' = [tp EXCEPT !.wait_port = @ - 1, !.rj = @ + 1, !.rpc = "r_loop"]

NextTest ==
    \/ T_create_h \/ T_create_f \/ T_loop \/ T_fork \/ T_spawn
    \/ T_read_h \/ T_assert_h \/ T_read_f \/ T_assert_f \/ T_inner
    \/ T_recv_h \/ T_write_h \/ T_recv_f \/ T_write_f \/ T_send_wait
    \/ T_join \/ T_final_h \/ T_assert_fh \/ T_final_f \/ T_assert_ff
    \/ T_drop
    \/ R_loop \/ R_send_h \/ R_send_f \/ R_recv_wait

SpecTest == InitTest /\ [][NextTest]_vars

(***************************************************************************)
(* Properties.                                                             *)
(***************************************************************************)
Alive == status # "destroyed"
Clean(h) == cells[h].read_ptr = cells[h].write_ptr /\ cells[h].next_dirty = Null
ForkStep == lastOp'.op = "reader_forked" /\ status = "running"
JoinStep == lastOp'.op = "reader_joined" /\ status = "running"
WriteStep == lastOp'.op = "write" /\ status = "running"

\* C1  Snapshot stability: while the reader is forked, every Handle.read of
\* a handle that existed at the fork returns the value the handle had at the
\* fork, and the reader view of every such handle is that value, whatever
\* the writer wrote meanwhile.
C1_SnapshotStability ==
    (layout_active /\ Alive) =>
        /\ \A h \in DOMAIN snap : ReaderView(h) = snap[h]
        /\ (lastOp.op = "read" /\ lastOp.h \in DOMAIN snap) =>
               lastOp.val = snap[lastOp.h]

\* a read during a fork of a handle the writer has changed meanwhile, with
\* both handles written
C1_Witness ==
    /\ layout_active /\ status = "running"
    /\ lastOp.op = "read"
    /\ lastOp.h \in roundWritten
    /\ WriterView(lastOp.h) # lastOp.val
    /\ Cardinality(roundWritten) >= 2

\* C2  Publish atomicity: in the state reader_joined returns, the two
\* pointers of every handle refer to the same live payload, so the reader
\* view equals the writer view.
C2_PublishAtomicity ==
    (lastOp.op = "reader_joined" /\ status = "running") =>
        \A h \in DOMAIN cells :
            /\ cells[h].read_ptr = cells[h].write_ptr
            /\ cells[h].read_ptr \in DOMAIN heap
            /\ ReaderView(h) = WriterView(h)
            /\ ReaderView(h) = ref[h]

\* a join that published two dirty cells
C2_Witness ==
    /\ lastOp.op = "reader_joined" /\ status = "running"
    /\ frees >= 2
    /\ \E h \in DOMAIN cells : ReaderView(h) >= 2

\* C3  The writer view is the sequential view: Scope::read of a handle is
\* the value of the reference pool, which applies every write in order to
\* the creation value and ignores fork and join.
C3_WriterViewSequential ==
    Alive => \A h \in DOMAIN cells : WriterView(h) = ref[h]

\* a forked state of the second round in which a handle published by the
\* first join has been written again
C3_Witness ==
    /\ layout_active /\ status = "running"
    /\ \E h \in roundWritten \cap DOMAIN snap : snap[h] = 1 /\ WriterView(h) = 2 /\ cells[h].read_ptr = 2 * h

\* C4  No lost updates across rounds of test::interspersed_execution: no
\* assertion of the test fails, every Handle.read made while round i is
\* forked returns i * iter2, and once the rounds are over both views of both
\* handles are iter1 * iter2.
C4_NoLostUpdates ==
    /\ status # "aborted"
    /\ (layout_active /\ lastOp.op = "read") => lastOp.val = tp.i * tp.iter2
    /\ (status = "running" /\ tp.wpc \in {"final_h", "assert_fh", "final_f", "assert_ff", "return"}) =>
           \A h \in {tp.henrietta, tp.ferdinand} :
               /\ ReaderView(h) = tp.iter1 * tp.iter2
               /\ WriterView(h) = tp.iter1 * tp.iter2

\* the test returns after two rounds or more of two increments or more
C4_Witness ==
    /\ tp.wpc = "return" /\ status = "running"
    /\ tp.iter1 >= 2 /\ tp.iter2 >= 2
    /\ ReaderView(tp.henrietta) = tp.iter1 * tp.iter2

\* C5  State violations are fatal: reader_forked while forked and
\* reader_joined while not forked abort, and an abort changes neither
\* layout_active nor first_dirty nor any record; otherwise reader_forked
\* sets layout_active and reader_joined clears it, so the successful forks
\* and joins alternate, a fork first.
C5_StateViolationsFatal ==
    [][ /\ (ForkStep /\ layout_active) => status' = "aborted"
        /\ (JoinStep /\ ~layout_active) => status' = "aborted"
        /\ (status = "running" /\ status' = "aborted") =>
               UNCHANGED <<layout_active, first_dirty, cells, heap, free_list>>
        /\ (ForkStep /\ ~layout_active) =>
               status' = "running" /\ layout_active' /\ fj \in {"none", "join"}
        /\ (JoinStep /\ layout_active) =>
               status' = "running" /\ ~layout_active' /\ fj = "fork"
      ]_vars

\* a fork refused while a cell was dirty
C5_Witness ==
    /\ status = "aborted"
    /\ lastOp.op = "reader_forked"
    /\ layout_active /\ first_dirty # Null

\* C6  An unforked write is in place: after a write made while the reader is
\* not forked nothing was allocated, every cell is clean, the dirty list is
\* empty and Handle.read shows the written value.
C6_UnforkedWriteInPlace ==
    (lastOp.op = "write" /\ ~layout_active /\ status = "running") =>
        /\ allocs = 0
        /\ first_dirty = Null
        /\ Cardinality(DOMAIN heap) = Cardinality(DOMAIN cells)
        /\ \A h \in DOMAIN cells : Clean(h) /\ ReaderView(h) = ref[h]

\* a handle written to 2 in a scope that was never forked
C6_Witness ==
    /\ lastOp.op = "write" /\ ~layout_active /\ status = "running"
    /\ fj = "none"
    /\ \E h \in DOMAIN cells : ReaderView(h) = 2

\* C7  Destruction leaves nothing allocated: after the drop no payload block
\* and no HandleData record is allocated.
C7_NothingAllocatedAfterDrop ==
    status = "destroyed" => (DOMAIN heap = {} /\ DOMAIN cells = {})

\* the number of frees free_handle owes a record
Owed(h) == IF cells[h].read_ptr = cells[h].write_ptr THEN 1 ELSE 2
RECURSIVE SumOwed(_)
SumOwed(S) == IF S = {} THEN 0 ELSE LET h == CHOOSE x \in S : TRUE
                                    IN  Owed(h) + SumOwed(S \ {h})

\* C8  No double free on destruction: free_list holds every record exactly
\* once, and the drop frees one block for a clean record and two for a dirty
\* one, each of them live when freed, leaving no payload behind.
C8_NoDoubleFree ==
    /\ Len(free_list) = Cardinality(DOMAIN cells)
    /\ {free_list[k] : k \in 1..Len(free_list)} = DOMAIN cells
    /\ status = "destroyed" =>
           /\ ~ub
           /\ frees = SumOwed(DOMAIN cells)
           /\ DOMAIN heap = {}

\* a drop of a forked scope with a clean and a dirty record, after an
\* earlier join had freed a payload
C8_Witness ==
    /\ status = "destroyed" /\ lastOp.op = "drop"
    /\ frees = 3
    /\ fj = "fork"
    /\ \E h \in DOMAIN cells : cells[h].read_ptr = 2 * h

\* C9  Dirty-set minimality: while forked, write has cloned as many payloads
\* as there are distinct handles written since the fork; a write that
\* allocates nothing leaves the records and the set of blocks alone; and the
\* join frees that same number of payloads.
C9_DirtySetMinimal ==
    [][ /\ (layout_active' /\ status' = "running") =>
               roundClones' = Cardinality(roundWritten')
        /\ (WriteStep /\ allocs' = 0) =>
               cells' = cells /\ DOMAIN heap' = DOMAIN heap
        /\ (JoinStep /\ layout_active) =>
               frees' = roundClones /\ frees' = Cardinality(roundWritten)
      ]_vars

\* a forked state where one handle was written twice and another once
C9_Witness ==
    /\ layout_active /\ status = "running"
    /\ roundClones = 2 /\ Cardinality(roundWritten) = 2
    /\ \E h \in roundWritten \cap DOMAIN snap : snap[h] = 0 /\ WriterView(h) = 2

\* C10  Fork and join with no write between them are a no-op on storage: the
\* fork touches nothing but layout_active, and a join with no handle written
\* since the fork allocates nothing, frees nothing, leaves every record as it
\* was and clean, and clears layout_active.
C10_ForkJoinNoOp ==
    [][ /\ (ForkStep /\ status' = "running") =>
               /\ allocs' = 0 /\ frees' = 0
               /\ UNCHANGED <<cells, heap, first_dirty, free_list>>
        /\ (JoinStep /\ layout_active /\ roundWritten = {}) =>
               /\ allocs' = 0 /\ frees' = 0
               /\ UNCHANGED <<cells, heap, free_list>>
               /\ \A h \in DOMAIN cells : Clean(h)'
               /\ ~layout_active'
      ]_vars

\* a join, two records in the scope, that found the dirty list empty
C10_Witness ==
    /\ lastOp.op = "reader_joined" /\ status = "running"
    /\ frees = 0 /\ allocs = 0
    /\ ~layout_active
    /\ Cardinality(DOMAIN cells) >= 2

\* what set_aux last stored for h, Null when it never did
Stored(h) == IF h \in DOMAIN auxset THEN auxset[h] ELSE Null

\* C11  Aux is outside the copy-on-write protocol: a new record has a null
\* read_aux, only set_aux makes a read_aux non-null, and handle, write,
\* reader_forked and reader_joined leave the read_aux of every record as it
\* was, so that read_aux is always what set_aux last stored.
C11_AuxOutsideCow ==
    [][ /\ lastOp'.op \in {"handle", "write", "reader_forked", "reader_joined"} =>
               \A h \in DOMAIN cells : cells'[h].read_aux = cells[h].read_aux
        /\ \A h \in DOMAIN cells' \ DOMAIN cells : cells'[h].read_aux = Null
        /\ \A h \in DOMAIN cells :
               (cells[h].read_aux = Null /\ cells'[h].read_aux # Null) =>
                   lastOp'.op = "set_aux"
        /\ \A h \in DOMAIN cells' : cells'[h].read_aux = Stored(h)'
      ]_vars

\* a join that published both records, each of which still has its aux
C11_Witness ==
    /\ lastOp.op = "reader_joined" /\ status = "running"
    /\ Cardinality(DOMAIN cells) = 2 /\ frees = 2
    /\ \A h \in DOMAIN cells : has_aux(h)
    /\ \E h \in DOMAIN cells : ReaderView(h) = 2

\* C12  Missing aux is fatal: Handle.aux on a handle that set_aux never
\* touched aborts and its closure does not run; on a handle with aux the
\* closure gets the box set_aux stored last.
C12_MissingAuxFatal ==
    lastOp.op = "aux" =>
        IF lastOp.h \in DOMAIN auxset
           THEN status = "running" /\ lastOp.val = auxset[lastOp.h]
           ELSE status = "aborted" /\ lastOp.val = NoVal

\* aux fails on a handle without aux while another handle has one
C12_Witness ==
    /\ lastOp.op = "aux" /\ status = "aborted"
    /\ ~has_aux(lastOp.h)
    /\ \E h \in DOMAIN cells : has_aux(h)

\* how many times h is met on the dirty list
Occurrences(h) == Cardinality({k \in 1..Len(Chain) : Chain[k] = h})

\* C13  Clean/dirty structure: between operations, a record has equal
\* pointers iff it is not on the dirty list, and then its next_dirty is null;
\* a record with different pointers is met exactly once from first_dirty; the
\* list holds nothing else.
C13_CleanDirtyStructure ==
    Alive =>
        /\ Len(Chain) <= Cardinality(DOMAIN cells)
        /\ \A h \in DOMAIN cells :
              /\ (cells[h].write_ptr = cells[h].read_ptr) <=> (Occurrences(h) = 0)
              /\ (cells[h].write_ptr = cells[h].read_ptr) => cells[h].next_dirty = Null
              /\ (cells[h].write_ptr # cells[h].read_ptr) => Occurrences(h) = 1

\* a forked state of a later round: one record dirty again, one clean
C13_Witness ==
    /\ layout_active /\ status = "running"
    /\ Len(Chain) = 1 /\ Cardinality(DOMAIN cells) = 2
    /\ cells[first_dirty].read_ptr = 2 * first_dirty
    /\ cells[first_dirty].write_ptr # cells[first_dirty].read_ptr

\* C14  Nothing is dirty while the reader is not forked: with layout_active
\* false first_dirty is null and every record has equal pointers, so the
\* second assertion of reader_forked holds whenever the first does.
C14_QuiescentIsClean ==
    (~layout_active /\ Alive) =>
        /\ first_dirty = Null
        /\ \A h \in DOMAIN cells : cells[h].write_ptr = cells[h].read_ptr

\* a write made after a join that had published a record
C14_Witness ==
    /\ ~layout_active /\ status = "running"
    /\ fj = "join" /\ lastOp.op = "write"
    /\ \E h \in DOMAIN cells : cells[h].read_ptr = 2 * h

\* the records whose two pointers differ
DirtySet == {h \in DOMAIN cells : cells[h].write_ptr # cells[h].read_ptr}

\* C15  The writer never touches a reader-visible payload while the reader
\* is forked: the block the closure of a write runs on (the write_ptr of the
\* written record once write has decided about the copy) is the read_ptr of
\* no record, old or created since the fork, and the payload behind every
\* read_ptr is the same before and after the write.
C15_WriterAvoidsReaderPayloads ==
    [][ \A h \in Handles, f \in Funcs :
           (layout_active /\ write(h, f)) =>
               /\ \A c \in DOMAIN cells' : cells'[h].write_ptr # cells'[c].read_ptr
               /\ \A c \in DOMAIN cells :
                     /\ cells'[c].read_ptr = cells[c].read_ptr
                     /\ View(heap', cells'[c].read_ptr) = View(heap, cells[c].read_ptr)
      ]_vars

\* a write, while forked, to a record created since the fork, next to a
\* record that was there at the fork
C15_Witness ==
    /\ layout_active /\ status = "running"
    /\ lastOp.op = "write"
    /\ DOMAIN snap # {}
    /\ \E h \in DOMAIN born : h \in roundWritten /\ WriterView(h) # ReaderView(h)

\* C16  The join reclaims exactly the stale reader payloads: the blocks it
\* frees are the read_ptr blocks of the dirty records, one free each, every
\* write_ptr block stays live with its content, and so before the drop every
\* read_ptr and write_ptr is non-null and refers to a live block.
C16_JoinReclaimsStale ==
    [][ /\ (JoinStep /\ layout_active) =>
               /\ DOMAIN heap \ DOMAIN heap' = {cells[h].read_ptr : h \in DirtySet}
               /\ frees' = Cardinality(DirtySet)
               /\ ~ub'
               /\ \A h \in DOMAIN cells :
                     /\ cells[h].write_ptr \in DOMAIN heap'
                     /\ heap'[cells[h].write_ptr] = heap[cells[h].write_ptr]
                     /\ cells'[h].read_ptr = cells[h].write_ptr
                     /\ cells'[h].write_ptr = cells[h].write_ptr
        /\ Alive' =>
               \A h \in DOMAIN cells' :
                   /\ cells'[h].read_ptr # Null
                   /\ cells'[h].read_ptr \in DOMAIN heap'
                   /\ cells'[h].write_ptr \in DOMAIN heap'
      ]_vars

\* a join with one dirty and one clean record
C16_Witness ==
    /\ lastOp.op = "reader_joined" /\ status = "running"
    /\ frees = 1
    /\ Cardinality(DOMAIN cells) = 2
    /\ \E h \in DOMAIN cells : cells[h].read_ptr = 2 * h /\ ReaderView(h) >= 1

CreateStep == lastOp'.op = "handle" /\ status = "running"

\* C17  Create while forked: handle(v) called with layout_active set gives a
\* clean record that is not on the dirty list and leaves layout_active,
\* first_dirty and the existing records alone; a first write to it before
\* the join clones it and puts it at the head of the dirty list; Handle.read
\* of it gives v until the join and the written value after the join.
C17_CreateWhileForked ==
    [][ /\ (CreateStep /\ layout_active) =>
               /\ layout_active' /\ first_dirty' = first_dirty
               /\ \A h \in DOMAIN cells : cells'[h] = cells[h]
               /\ \A h \in DOMAIN cells' \ DOMAIN cells :
                     /\ Clean(h)'
                     /\ Occurrences(h)' = 0
                     /\ ReaderView(h)' = born'[h]
        /\ \A h \in DOMAIN born, f \in Funcs :
               (write(h, f) /\ h \notin roundWritten) =>
                   /\ allocs' = 1
                   /\ first_dirty' = h
                   /\ cells'[h].next_dirty = first_dirty
                   /\ cells'[h].write_ptr # cells'[h].read_ptr
        /\ (layout_active' /\ status' = "running") =>
               \A h \in DOMAIN born' : ReaderView(h)' = born'[h]
        /\ (JoinStep /\ layout_active) =>
               \A h \in DOMAIN born : ReaderView(h)' = ref[h]
      ]_vars

\* a record created since the fork and written since: the reader still sees
\* its creation value, the writer the written one
C17_Witness ==
    /\ layout_active /\ status = "running"
    /\ \E h \in DOMAIN born :
          /\ h \in roundWritten
          /\ ReaderView(h) = born[h]
          /\ WriterView(h) = born[h] + 1
          /\ first_dirty = h

\* the sequence s backwards
RECURSIVE Reverse(_)
Reverse(s) == IF s = <<>> THEN <<>> ELSE Append(Reverse(Tail(s)), Head(s))

\* C18  The dirty-list walk of the join terminates: the list from
\* first_dirty never comes back on itself and is, while forked, the handles
\* written since the fork in reverse order of first write; the join makes one
\* loop iteration (one free) per record of the list and leaves first_dirty
\* and every next_dirty null.
C18_JoinWalkTerminates ==
    [][ /\ Alive' =>
               /\ Len(Chain') <= Cardinality(DOMAIN cells')
               /\ \A h \in DOMAIN cells' : Occurrences(h)' <= 1
               /\ (layout_active' /\ status' = "running") => Chain' = Reverse(firstWrites')
        /\ (JoinStep /\ layout_active) =>
               /\ frees' = Len(Chain)
               /\ first_dirty' = Null
               /\ \A h \in DOMAIN cells' : cells'[h].next_dirty = Null
      ]_vars

\* a join that walked a list of two records
C18_Witness ==
    /\ lastOp.op = "reader_joined" /\ status = "running"
    /\ frees = 2
    /\ first_dirty = Null
    /\ \A h \in DOMAIN cells : cells[h].next_dirty = Null /\ cells[h].read_ptr = 2 * h

\* the payload blocks a record refers to
Blocks(h) == {cells[h].read_ptr, cells[h].write_ptr}

\* C19  Payloads are never shared between records: two distinct records
\* have no block in common, and a write through one handle changes neither
\* the reader view nor the writer view of any other handle.
C19_NoSharedPayload ==
    [][ /\ \A c1, c2 \in DOMAIN cells' :
               c1 # c2 => Blocks(c1)' \cap Blocks(c2)' = {}
        /\ \A h \in Handles, f \in Funcs :
               write(h, f) =>
                   \A c \in DOMAIN cells \ {h} :
                       /\ ReaderView(c)' = ReaderView(c)
                       /\ WriterView(c)' = WriterView(c)
      ]_vars

\* two dirty records with the same reader value and the same writer value
C19_Witness ==
    /\ layout_active /\ status = "running"
    /\ Cardinality(DirtySet) = 2
    /\ \A c1, c2 \in DOMAIN cells :
          ReaderView(c1) = ReaderView(c2) /\ WriterView(c1) = WriterView(c2)
    /\ \A c \in DOMAIN cells : WriterView(c) # ReaderView(c)

====
